---- MODULE Spec2Model ----
(***************************************************************************)
(* Model of sem_and_share.cpp: a coordinator (main) creates a System V     *)
(* semaphore set of 6 semaphores and 5 one-int shared memory segments,     *)
(* forks 5 workers that run open_and_write, reaps them and removes the     *)
(* segments and the semaphore set.                                         *)
(***************************************************************************)
EXTENDS Integers, Sequences, FiniteSets, TLC

\* ---------------------------------------------------------------- constants
\* int PROC_COUNT = 5 (main)
PROC_COUNT == 5

\* the loop bound of "for(int sem = 0; sem < 5; sem++)" and of the shm arrays
NUM_RES == 5

\* index of the "critical semaphore" in acquire_resource(semSet, 5)
GATE == 5

\* a gate that admits every worker (what init_sem(semSet, 5, 5) would give)
GateInitAll == PROC_COUNT

\* init_sem(semSet, 5, 4)
GateInit == 4

\* init_sem(semSet, sem, 1)
LockInit == 1

\* create_semaphore_set(6)
NUM_SEMS == 6

Workers   == 0 .. (PROC_COUNT - 1)
Resources == 0 .. (NUM_RES - 1)
Sems      == 0 .. (NUM_SEMS - 1)

\* the status wait() would report for exit(c): the low 8 bits of c
ExitStatus(c) == c % 256

\* int sem1 = i;
sem1(i) == i

\* int sem2 = i + 1; without the wrap to 0
sem2NoWrap(i) == i + 1

\* int sem2 = (i + 1 == 5) ? 0 : i + 1;
sem2(i) == IF i + 1 = 5 THEN 0 ELSE i + 1

\* the switch(i) table of open_and_write: db1filename
db1filename(i) ==
  CASE i = 0 -> "faculty.txt"
    [] i = 1 -> "students.txt"
    [] i = 2 -> "statistics.txt"
    [] i = 3 -> "staff.txt"
    [] i = 4 -> "salary.txt"

\* the switch(i) table of open_and_write: db2filename
db2filename(i) ==
  CASE i = 0 -> "students.txt"
    [] i = 1 -> "statistics.txt"
    [] i = 2 -> "staff.txt"
    [] i = 3 -> "salary.txt"
    [] i = 4 -> "faculty.txt"

\* the five files of the switch(i) table
FileNames == {db1filename(i) : i \in Workers} \cup {db2filename(i) : i \in Workers}

\* the sinks that cannot be opened for appending in a run: none, or the two
\* sinks of worker 2 (each of them is also a sink of a neighbour)
UnavailableChoices == { {}, {db1filename(2), db2filename(2)} }

\* ---------------------------------------------------------------- state
VARIABLES
  cpc,        \* coordinator: position in main
  ci,         \* coordinator: loop index (sem / i)
  exitCode,   \* coordinator: {} while running, {status} once exited
  report,     \* coordinator: error messages printed so far
  semState,   \* the semaphore set: "absent", "live", "removed"
  sem,        \* semaphore values, semaphore 5 is the gate
  semadj,     \* per process SEM_UNDO adjustments
  shmState,   \* each segment: "absent", "live", "removed"
  shm,        \* *shm_ary[r], the busy flags
  rmCalls,    \* number of IPC_RMID calls made on each segment / on the set
  wpc,        \* worker: position in open_and_write
  semops,     \* worker: the semop calls that succeeded, in order
  dbgood,     \* worker: <<db1.good(), db2.good()>> after open
  reaped,     \* number of children collected by wait()
  unavailable, \* sinks that cannot be opened
  files       \* the records appended to each sink, in order

vars == <<cpc, ci, exitCode, report, semState, sem, semadj, shmState, shm,
          rmCalls, wpc, semops, dbgood, reaped, unavailable, files>>

coordVars  == <<cpc, ci, exitCode, report, rmCalls, reaped>>
workerVars == <<wpc, semops, dbgood>>
sinkVars   == <<unavailable, files>>

Terminated(w) == wpc[w] \in {"done", "fault"}
Launched(w)   == wpc[w] # "unborn"
Running(w)    == Launched(w) /\ ~Terminated(w)

\* the state at entry of main
Init ==
  /\ cpc = "semget"
  /\ ci = 0
  /\ exitCode = {}
  /\ report = {}
  /\ semState = "absent"
  /\ sem = [s \in Sems |-> 0]
  /\ semadj = [w \in Workers |-> [s \in Sems |-> 0]]
  /\ shmState = [r \in Resources |-> "absent"]
  /\ shm = [r \in Resources |-> 0]
  /\ rmCalls = [r \in Resources \cup {GATE} |-> 0]
  /\ wpc = [w \in Workers |-> "unborn"]
  /\ semops = [w \in Workers |-> <<>>]
  /\ dbgood = [w \in Workers |-> <<TRUE, TRUE>>]
  /\ reaped = 0
  /\ unavailable \in UnavailableChoices
  /\ files = [f \in FileNames |-> <<>>]

\* ---------------------------------------------------------------- semaphores
\* semop(semSet, {semid, -1, SEM_UNDO}) that returns without waiting for the
\* value to become positive
acquire_resource_nowait(w, semid) ==
  /\ sem' = [sem EXCEPT ![semid] = IF @ >= 1 THEN @ - 1 ELSE @]
  /\ semadj' = [semadj EXCEPT ![w][semid] = @ + 1]
  /\ semops' = [semops EXCEPT ![w] = Append(@, <<"acquire", semid>>)]

\* acquire_resource: semop with sem_op = -1 and SEM_UNDO. On a live set the
\* caller sleeps until the value is >= 1 and then decrements it; on a set that
\* does not exist semop fails at once and the (unchecked) call returns.
acquire_resource(w, semid) ==
  IF semState = "live"
    THEN /\ sem[semid] >= 1
         /\ sem' = [sem EXCEPT ![semid] = @ - 1]
         /\ semadj' = [semadj EXCEPT ![w][semid] = @ + 1]
         /\ semops' = [semops EXCEPT ![w] = Append(@, <<"acquire", semid>>)]
    ELSE UNCHANGED <<sem, semadj, semops>>

\* release_resource: semop with sem_op = +1 and SEM_UNDO, never blocks
release_resource(w, semid) ==
  IF semState = "live"
    THEN /\ sem' = [sem EXCEPT ![semid] = @ + 1]
         /\ semadj' = [semadj EXCEPT ![w][semid] = @ - 1]
         /\ semops' = [semops EXCEPT ![w] = Append(@, <<"release", semid>>)]
    ELSE UNCHANGED <<sem, semadj, semops>>

\* process exit of worker w: the kernel applies its SEM_UNDO adjustments
ExitUndo(w) ==
  /\ sem' = IF semState = "live"
              THEN [s \in Sems |-> sem[s] + semadj[w][s]]
              ELSE sem
  /\ semadj' = [semadj EXCEPT ![w] = [s \in Sems |-> 0]]

\* ---------------------------------------------------------------- coordinator
\* int semSet = create_semaphore_set(6): semget creates the set, values 0
CreateSemSet ==
  /\ cpc = "semget"
  /\ semState' = "live"
  /\ sem' = [s \in Sems |-> 0]
  /\ cpc' = "init"
  /\ ci' = 0
  /\ UNCHANGED <<exitCode, report, semadj, shmState, shm, rmCalls, reaped,
                 sinkVars, workerVars>>

\* one iteration of the first loop of main: init_sem(semSet, sem, 1), then a
\* segment is created, attached and set to 0
InitResource ==
  /\ cpc = "init"
  /\ ci < NUM_RES
  /\ sem' = IF semState = "live" THEN [sem EXCEPT ![ci] = LockInit] ELSE sem
  /\ shmState' = [shmState EXCEPT ![ci] = "live"]
  /\ shm' = [shm EXCEPT ![ci] = 0]
  /\ ci' = ci + 1
  /\ cpc' = IF ci + 1 = NUM_RES THEN "initgate" ELSE "init"
  /\ UNCHANGED <<exitCode, report, semState, semadj, rmCalls, reaped,
                 sinkVars, workerVars>>

\* one iteration of the first loop of main in which create_shared_mem_id
\* returns -1 (shmget failed): init_sem(semSet, sem, 1) has run, then
\* cout << "Failed getting shared memory"; exit(-1);
ShmGetFail ==
  /\ cpc = "init"
  /\ ci < NUM_RES
  /\ sem' = IF semState = "live" THEN [sem EXCEPT ![ci] = LockInit] ELSE sem
  /\ report' = report \cup {"Failed getting shared memory"}
  /\ exitCode' = {ExitStatus(-1)}
  /\ cpc' = "exited"
  /\ UNCHANGED <<ci, semState, semadj, shmState, shm, rmCalls, reaped,
                 sinkVars, workerVars>>

\* init_sem(semSet, 5, 4)
InitGate ==
  /\ cpc = "initgate"
  /\ sem' = IF semState = "live" THEN [sem EXCEPT ![GATE] = GateInit] ELSE sem
  /\ cpc' = "fork"
  /\ ci' = 0
  /\ UNCHANGED <<exitCode, report, semState, semadj, shmState, shm, rmCalls,
                 reaped, sinkVars, workerVars>>

\* one iteration of the fork loop in which fork() returns the child's pid:
\* the child starts open_and_write(semSet, shm_ary, i)
Fork ==
  /\ cpc = "fork"
  /\ ci < PROC_COUNT
  /\ wpc' = [wpc EXCEPT ![ci] = "enter"]
  /\ ci' = ci + 1
  /\ cpc' = IF ci + 1 = PROC_COUNT THEN "wait" ELSE "fork"
  /\ UNCHANGED <<exitCode, report, semState, sem, semadj, shmState, shm,
                 rmCalls, reaped, sinkVars, semops, dbgood>>

\* one iteration of the fork loop in which fork() returns < 0:
\* fprintf(stderr, "Fork Failed"); exit(-1);
ForkFail ==
  /\ cpc = "fork"
  /\ ci < PROC_COUNT
  /\ report' = report \cup {"Fork Failed"}
  /\ exitCode' = {ExitStatus(-1)}
  /\ cpc' = "exited"
  /\ UNCHANGED <<ci, semState, sem, semadj, shmState, shm, rmCalls, reaped,
                 sinkVars, workerVars>>

\* wait(NULL) returns -1 as soon as one child has been collected
WaitNoneEarly ==
  /\ cpc = "wait"
  /\ reaped > 0
  /\ cpc' = "rmshm"
  /\ ci' = 0
  /\ UNCHANGED <<exitCode, report, semState, sem, semadj, shmState, shm,
                 rmCalls, reaped, sinkVars, workerVars>>

\* while((j = wait(NULL)) != -1): wait collects one terminated child that
\* has not been collected yet; its pid j is used by the debug output only
Wait ==
  /\ cpc = "wait"
  /\ Cardinality({w \in Workers : Terminated(w)}) > reaped
  /\ reaped' = reaped + 1
  /\ UNCHANGED <<cpc, ci, exitCode, report, semState, sem, semadj, shmState,
                 shm, rmCalls, sinkVars, workerVars>>

\* wait(NULL) returns -1 (ECHILD): no child is left, the loop ends
WaitNone ==
  /\ cpc = "wait"
  /\ Cardinality({w \in Workers : Launched(w)}) = reaped
  /\ cpc' = "rmshm"
  /\ ci' = 0
  /\ UNCHANGED <<exitCode, report, semState, sem, semadj, shmState, shm,
                 rmCalls, reaped, sinkVars, workerVars>>

\* one iteration of the cleanup loop: destroy_mem_segment(shmIds[i]); when
\* shmctl fails the message is printed and the loop goes on
DestroyMemSegment ==
  /\ cpc = "rmshm"
  /\ ci < NUM_RES
  /\ rmCalls' = [rmCalls EXCEPT ![ci] = @ + 1]
  /\ \E ok \in BOOLEAN :
       IF ok /\ shmState[ci] = "live"
         THEN /\ shmState' = [shmState EXCEPT ![ci] = "removed"]
              /\ UNCHANGED report
         ELSE /\ report' = report \cup {"Error occurred destroying memory segment"}
              /\ UNCHANGED shmState
  /\ ci' = ci + 1
  /\ cpc' = IF ci + 1 = NUM_RES THEN "rmsem" ELSE "rmshm"
  /\ UNCHANGED <<exitCode, semState, sem, semadj, shm, reaped, sinkVars,
                 workerVars>>

\* semctl(semSet, 0, IPC_RMID, 0); on failure perror and go on
RemoveSemSet ==
  /\ cpc = "rmsem"
  /\ rmCalls' = [rmCalls EXCEPT ![GATE] = @ + 1]
  /\ \E ok \in BOOLEAN :
       IF ok /\ semState = "live"
         THEN /\ semState' = "removed"
              /\ UNCHANGED report
         ELSE /\ report' = report \cup {"Semaphore was not removed."}
              /\ UNCHANGED semState
  /\ cpc' = "finish"
  /\ UNCHANGED <<ci, exitCode, sem, semadj, shmState, shm, reaped, sinkVars,
                 workerVars>>

\* exit(0) at the end of main
Exit ==
  /\ cpc = "finish"
  /\ exitCode' = {ExitStatus(0)}
  /\ cpc' = "exited"
  /\ UNCHANGED <<ci, report, semState, sem, semadj, shmState, shm, rmCalls,
                 reaped, sinkVars, workerVars>>

\* ---------------------------------------------------------------- worker
\* open_and_write without the acquire of the critical semaphore
EnterNoGate(w) ==
  /\ wpc[w] = "enter"
  /\ wpc' = [wpc EXCEPT ![w] = "acq1"]
  /\ UNCHANGED <<coordVars, semState, sem, semadj, shmState, shm, semops,
                 dbgood, sinkVars>>

\* acquire_resource(semSet, 5): get to be one of the four processes
Enter(w) ==
  /\ wpc[w] = "enter"
  /\ acquire_resource(w, GATE)
  /\ wpc' = [wpc EXCEPT ![w] = "acq1"]
  /\ UNCHANGED <<coordVars, semState, shmState, shm, dbgood, sinkVars>>

\* acquire_resource(semSet, sem2) in the place of acquire_resource(semSet, sem1)
AcquireFirstSwapped(w) ==
  /\ wpc[w] = "acq1"
  /\ acquire_resource(w, sem2(w))
  /\ wpc' = [wpc EXCEPT ![w] = "acq2"]
  /\ UNCHANGED <<coordVars, semState, shmState, shm, dbgood, sinkVars>>

\* acquire_resource(semSet, sem1)
AcquireFirst(w) ==
  /\ wpc[w] = "acq1"
  /\ acquire_resource(w, sem1(w))
  /\ wpc' = [wpc EXCEPT ![w] = "acq2"]
  /\ UNCHANGED <<coordVars, semState, shmState, shm, dbgood, sinkVars>>

\* open_and_write without the acquire of sem2
AcquireSecondSkipped(w) ==
  /\ wpc[w] = "acq2"
  /\ wpc' = [wpc EXCEPT ![w] = "mark1"]
  /\ UNCHANGED <<coordVars, semState, sem, semadj, shmState, shm, semops,
                 dbgood, sinkVars>>

\* acquire_resource(semSet, sem2)
AcquireSecond(w) ==
  /\ wpc[w] = "acq2"
  /\ acquire_resource(w, sem2(w))
  /\ wpc' = [wpc EXCEPT ![w] = "mark1"]
  /\ UNCHANGED <<coordVars, semState, shmState, shm, dbgood, sinkVars>>

\* if(*shm_ary[r] == 0) *shm_ary[r] = 1; else { cout << "ERROR: Resources are
\* in use!"; exit(-1); }   The exit applies the SEM_UNDO adjustments.
MarkBusy(w, r, next) ==
  IF shm[r] = 0
    THEN /\ shm' = [shm EXCEPT ![r] = 1]
         /\ wpc' = [wpc EXCEPT ![w] = next]
         /\ UNCHANGED <<sem, semadj>>
    ELSE /\ ExitUndo(w)
         /\ wpc' = [wpc EXCEPT ![w] = "fault"]
         /\ UNCHANGED shm

\* the test of *shm_ary[sem1]
MarkFirst(w) ==
  /\ wpc[w] = "mark1"
  /\ MarkBusy(w, sem1(w), "mark2")
  /\ UNCHANGED <<coordVars, semState, shmState, semops, dbgood, sinkVars>>

\* the test of *shm_ary[sem2]
MarkSecond(w) ==
  /\ wpc[w] = "mark2"
  /\ MarkBusy(w, sem2(w), "open")
  /\ UNCHANGED <<coordVars, semState, shmState, semops, dbgood, sinkVars>>

\* open that ends the worker with exit(-1) when a file cannot be opened
OpenFilesAbort(w) ==
  /\ wpc[w] = "open"
  /\ dbgood' = [dbgood EXCEPT ![w] = <<db1filename(w) \notin unavailable,
                                       db2filename(w) \notin unavailable>>]
  /\ IF db1filename(w) \in unavailable \/ db2filename(w) \in unavailable
       THEN /\ ExitUndo(w)
            /\ wpc' = [wpc EXCEPT ![w] = "fault"]
       ELSE /\ wpc' = [wpc EXCEPT ![w] = "use1"]
            /\ UNCHANGED <<sem, semadj>>
  /\ UNCHANGED <<coordVars, semState, shmState, shm, semops, sinkVars>>

\* db1.open(db1filename, out | app); db2.open(db2filename, out | app);
\* a stream whose file cannot be opened has its failbit set and nothing else
\* happens
OpenFiles(w) ==
  /\ wpc[w] = "open"
  /\ dbgood' = [dbgood EXCEPT ![w] = <<db1filename(w) \notin unavailable,
                                       db2filename(w) \notin unavailable>>]
  /\ wpc' = [wpc EXCEPT ![w] = "use1"]
  /\ UNCHANGED <<coordVars, semState, sem, semadj, shmState, shm, semops,
                 sinkVars>>

\* db << text << endl on a stream: the record is appended to the file (the
\* stream was opened with ofstream::app and endl flushes); a write to a
\* stream that is not good is dropped
Append1(w, good, f, text) ==
  files' = IF good THEN [files EXCEPT ![f] = Append(@, <<w, text>>)] ELSE files

\* db1 << "Being used by " << systemName ... << endl; sleep(1);
UseFirst(w) ==
  /\ wpc[w] = "use1"
  /\ Append1(w, dbgood[w][1], db1filename(w), "Being used by")
  /\ wpc' = [wpc EXCEPT ![w] = "use2"]
  /\ UNCHANGED <<coordVars, semState, sem, semadj, shmState, shm, semops,
                 dbgood, unavailable>>

\* db2 << "Being used by " << systemName ... << endl; sleep(1);
UseSecond(w) ==
  /\ wpc[w] = "use2"
  /\ Append1(w, dbgood[w][2], db2filename(w), "Being used by")
  /\ wpc' = [wpc EXCEPT ![w] = "free1"]
  /\ UNCHANGED <<coordVars, semState, sem, semadj, shmState, shm, semops,
                 dbgood, unavailable>>

\* db1 << "Free from the " << systemName ... << endl;
FreeFirst(w) ==
  /\ wpc[w] = "free1"
  /\ Append1(w, dbgood[w][1], db1filename(w), "Free from")
  /\ wpc' = [wpc EXCEPT ![w] = "free2"]
  /\ UNCHANGED <<coordVars, semState, sem, semadj, shmState, shm, semops,
                 dbgood, unavailable>>

\* the second "Free from the" record written to db1 in place of db2
FreeSecondToFirst(w) ==
  /\ wpc[w] = "free2"
  /\ Append1(w, dbgood[w][1], db1filename(w), "Free from")
  /\ wpc' = [wpc EXCEPT ![w] = "clear1"]
  /\ UNCHANGED <<coordVars, semState, sem, semadj, shmState, shm, semops,
                 dbgood, unavailable>>

\* db2 << "Free from the " << systemName ... << endl;
FreeSecond(w) ==
  /\ wpc[w] = "free2"
  /\ Append1(w, dbgood[w][2], db2filename(w), "Free from")
  /\ wpc' = [wpc EXCEPT ![w] = "clear1"]
  /\ UNCHANGED <<coordVars, semState, sem, semadj, shmState, shm, semops,
                 dbgood, unavailable>>

\* the four records written to db1 and db2 and the two sleep(1) between them
Workload(w) ==
  \/ UseFirst(w)
  \/ UseSecond(w)
  \/ FreeFirst(w)
  \/ FreeSecond(w)

\* db.close() without the store of 0 to *shm_ary[r]
MarkFreeForgotten(w, r, next) ==
  /\ UNCHANGED shm
  /\ wpc' = [wpc EXCEPT ![w] = next]

\* db.close() with the store of 0 made through the index that is not wrapped
\* around: worker 4 never clears the flag of resource 0
MarkFreeNoWrap(w, r, next) ==
  /\ shm' = [shm EXCEPT ![r] = IF r \in {sem1(w), sem2NoWrap(w)} THEN 0 ELSE @]
  /\ wpc' = [wpc EXCEPT ![w] = next]

\* db.close(); *shm_ary[r] = 0;
MarkFree(w, r, next) ==
  /\ shm' = [shm EXCEPT ![r] = 0]
  /\ wpc' = [wpc EXCEPT ![w] = next]

\* db1.close(); *shm_ary[sem1] = 0;
ClearFirst(w) ==
  /\ wpc[w] = "clear1"
  /\ MarkFree(w, sem1(w), "rel1")
  /\ UNCHANGED <<coordVars, semState, sem, semadj, shmState, semops, dbgood,
                 sinkVars>>

\* release_resource(semSet, sem1)
ReleaseFirst(w) ==
  /\ wpc[w] = "rel1"
  /\ release_resource(w, sem1(w))
  /\ wpc' = [wpc EXCEPT ![w] = "clear2"]
  /\ UNCHANGED <<coordVars, semState, shmState, shm, dbgood, sinkVars>>

\* db2.close(); *shm_ary[sem2] = 0;
ClearSecond(w) ==
  /\ wpc[w] = "clear2"
  /\ MarkFree(w, sem2(w), "rel2")
  /\ UNCHANGED <<coordVars, semState, sem, semadj, shmState, semops, dbgood,
                 sinkVars>>

\* release_resource(semSet, sem1) a second time in place of sem2
ReleaseSecondWrong(w) ==
  /\ wpc[w] = "rel2"
  /\ release_resource(w, sem1(w))
  /\ wpc' = [wpc EXCEPT ![w] = "leave"]
  /\ UNCHANGED <<coordVars, semState, shmState, shm, dbgood, sinkVars>>

\* release_resource(semSet, sem2)
ReleaseSecond(w) ==
  /\ wpc[w] = "rel2"
  /\ release_resource(w, sem2(w))
  /\ wpc' = [wpc EXCEPT ![w] = "leave"]
  /\ UNCHANGED <<coordVars, semState, shmState, shm, dbgood, sinkVars>>

\* release_resource(semSet, 5), the last statement of open_and_write
Leave(w) ==
  /\ wpc[w] = "leave"
  /\ release_resource(w, GATE)
  /\ wpc' = [wpc EXCEPT ![w] = "ret"]
  /\ UNCHANGED <<coordVars, semState, shmState, shm, dbgood, sinkVars>>

\* exit(0) of the child after open_and_write has returned
ChildExit(w) ==
  /\ wpc[w] = "ret"
  /\ ExitUndo(w)
  /\ wpc' = [wpc EXCEPT ![w] = "done"]
  /\ UNCHANGED <<coordVars, semState, shmState, shm, semops, dbgood,
                 sinkVars>>

WorkerStep(w) ==
  \/ Enter(w)
  \/ AcquireFirst(w)
  \/ AcquireSecond(w)
  \/ MarkFirst(w)
  \/ MarkSecond(w)
  \/ OpenFiles(w)
  \/ Workload(w)
  \/ ClearFirst(w)
  \/ ReleaseFirst(w)
  \/ ClearSecond(w)
  \/ ReleaseSecond(w)
  \/ Leave(w)
  \/ ChildExit(w)

CoordinatorStep ==
  \/ CreateSemSet
  \/ InitResource
  \/ InitGate
  \/ Fork
  \/ ForkFail
  \/ Wait
  \/ WaitNone
  \/ DestroyMemSegment
  \/ RemoveSemSet
  \/ Exit

Next ==
  \/ CoordinatorStep
  \/ \E w \in Workers : WorkerStep(w)

Spec == Init /\ [][Next]_vars

\* the scheduler does not stop while some process can take a step (weaker
\* than, and implied by, weak fairness of every single process)
InitAvailable == Init /\ unavailable = {}

FairSpec == InitAvailable /\ [][Next]_vars /\ WF_vars(Next)

\* the program in an environment in which shmget can fail
NextAlloc ==
  \/ Next
  \/ ShmGetFail

SpecAlloc == Init /\ [][NextAlloc]_vars

\* the runs in which some sinks cannot be opened, under the same scheduler
InitUnavailable == Init /\ unavailable # {}

SinkFaultSpec == InitUnavailable /\ [][Next]_vars /\ WF_vars(Next)

\* ---------------------------------------------------------------- positions
\* worker w is between the return of acquire_resource(semSet, sem1) and the
\* return of release_resource(semSet, sem1)
HoldsFirst(w) ==
  wpc[w] \in {"acq2", "mark1", "mark2", "open", "use1", "use2", "free1", "free2", "clear1", "rel1"}

\* worker w is between the return of acquire_resource(semSet, sem2) and the
\* return of release_resource(semSet, sem2)
HoldsSecond(w) ==
  wpc[w] \in {"mark1", "mark2", "open", "use1", "use2", "free1", "free2", "clear1", "rel1", "clear2",
              "rel2"}

\* worker w is between the return of acquire_resource(semSet, 5) and the
\* return of release_resource(semSet, 5): Admitted .. Released
Admitted(w) ==
  wpc[w] \in {"acq1", "acq2", "mark1", "mark2", "open", "use1", "use2", "free1", "free2", "clear1",
              "rel1", "clear2", "rel2", "leave"}

\* the workers that hold the lock of resource r
Holders(r) ==
  {w \in Workers : \/ sem1(w) = r /\ HoldsFirst(w)
                   \/ sem2(w) = r /\ HoldsSecond(w)}

\* ---------------------------------------------------------------- claims
\* C1: mutual exclusion. Once the semaphore set exists, each resource lock is
\* held by at most one worker: the two workers that use resource r are never
\* both between their acquire of r and their release of r.
MutualExclusion ==
  \A r \in Resources :
    /\ Cardinality(Holders(r)) <= 1
    /\ Cardinality({w \in Workers : semadj[w][r] >= 1}) <= 1

\* C1 witness: a worker holds both locks while its ring neighbour waits for
\* one of them
MutualExclusionWitness ==
  \E w \in Workers :
    /\ wpc[w] = "use1"
    /\ wpc[sem2(w)] = "acq1"
    /\ sem[sem2(w)] = 0

\* C2: admission bound. The number of workers past the gate acquire and not
\* yet past the gate release is at most N-1 = 4.
AdmissionBound ==
  Cardinality({w \in Workers : Admitted(w)}) <= PROC_COUNT - 1

\* C2 witness: four workers are admitted and the fifth waits at the gate
AdmissionBoundWitness ==
  /\ Cardinality({w \in Workers : Admitted(w)}) = PROC_COUNT - 1
  /\ \E w \in Workers : wpc[w] = "enter" /\ sem[GATE] = 0

\* C3: deadlock freedom. Whenever a launched worker has not terminated, some
\* launched worker has an enabled step; the circular wait in which every
\* worker holds its first resource and waits for its second is unreachable.
DeadlockFreedom ==
  /\ (\E w \in Workers : Running(w))
       => (\E w \in Workers : Running(w) /\ ENABLED WorkerStep(w))
  /\ ~(\A w \in Workers : wpc[w] = "acq2")

\* C3 witness: all five workers are running, four of them hold their first
\* resource and wait for the second, and exactly one worker can take a step
DeadlockFreedomWitness ==
  /\ \A w \in Workers : Running(w)
  /\ Cardinality({w \in Workers : wpc[w] = "acq2"}) = PROC_COUNT - 1
  /\ Cardinality({w \in Workers : ENABLED WorkerStep(w)}) = 1

\* the number of successful semop calls of kind op on semaphore s in log
Count(log, op, s) ==
  Cardinality({k \in 1 .. Len(log) : log[k] = <<op, s>>})

\* the semaphores worker w uses
Needs(w) == {GATE, sem1(w), sem2(w)}

\* worker w has a stream that failed to open
SinkFault(w) == dbgood[w] # <<TRUE, TRUE>>

\* C4: termination. Under weak fairness, whatever waiter a release lets
\* through, the run reaches and stays in a state in which every launched
\* worker has reached Done and main has exited: no acquire waits for ever.
Termination ==
  <>[](/\ cpc = "exited"
       /\ \A w \in Workers : Launched(w) => wpc[w] = "done")

\* C4 witness: all five workers have reached Done, each after three acquires
\* that succeeded and three releases
TerminationWitness ==
  \A w \in Workers :
    /\ wpc[w] = "done"
    /\ \A s \in Needs(w) : Count(semops[w], "acquire", s) = 1
    /\ Len(semops[w]) = 6

\* C5: the "Resources are in use" exit is never taken: a worker that is about
\* to test a busy flag finds it 0, and no worker ends in the fault state.
NoResourceInUse ==
  \A w \in Workers :
    /\ wpc[w] # "fault"
    /\ wpc[w] = "mark1" => shm[sem1(w)] = 0
    /\ wpc[w] = "mark2" => shm[sem2(w)] = 0

\* C5 witness: a worker is about to test the flag of a resource that its
\* neighbour has used and given back
NoResourceInUseWitness ==
  \E w \in Workers :
    /\ wpc[w] = "mark2"
    /\ wpc[sem2(w)] = "done"
    /\ shm[sem1(w)] = 1

\* C6: release symmetry. No worker releases a semaphore more often than it
\* has acquired it, and when the coordinator starts its teardown every
\* launched worker has acquired and released each of its three semaphores
\* exactly once and no other, every lock has value 1 and the gate value 4.
ReleaseSymmetry ==
  /\ \A w \in Workers : \A k \in 1 .. Len(semops[w]) :
       semops[w][k][1] = "release" =>
         Count(SubSeq(semops[w], 1, k - 1), "release", semops[w][k][2])
           < Count(SubSeq(semops[w], 1, k - 1), "acquire", semops[w][k][2])
  /\ cpc \in {"rmshm", "rmsem"} =>
       /\ \A w \in Workers : Launched(w) =>
            \A s \in Sems :
              /\ Count(semops[w], "acquire", s) = (IF s \in Needs(w) THEN 1 ELSE 0)
              /\ Count(semops[w], "release", s) = (IF s \in Needs(w) THEN 1 ELSE 0)
       /\ \A r \in Resources : sem[r] = LockInit
       /\ sem[GATE] = PROC_COUNT - 1

\* C6 witness: the teardown starts after five workers have run
ReleaseSymmetryWitness ==
  /\ cpc = "rmshm"
  /\ ci = 0
  /\ \A w \in Workers : wpc[w] = "done" /\ Len(semops[w]) = 6

\* C7: teardown ordering. A segment or the semaphore set is destroyed only
\* when every launched worker has terminated; IPC_RMID is called at most once
\* on each, and exactly once on each when main reaches its exit(0); no running
\* worker ever has a destroyed primitive.
TeardownOrdering ==
  /\ (\/ \E x \in DOMAIN rmCalls : rmCalls[x] > 0
      \/ semState = "removed"
      \/ \E r \in Resources : shmState[r] = "removed")
       => \A w \in Workers : Launched(w) => Terminated(w)
  /\ \A x \in DOMAIN rmCalls : rmCalls[x] <= 1
  /\ cpc \in {"finish", "exited"} /\ "Fork Failed" \notin report
       => \A x \in DOMAIN rmCalls : rmCalls[x] = 1
  /\ \A w \in Workers : Running(w) =>
       /\ semState # "removed"
       /\ \A r \in Resources : shmState[r] # "removed"

\* C7 witness: main has ended through its teardown, all primitives destroyed
TeardownOrderingWitness ==
  /\ cpc = "exited"
  /\ exitCode = {0}
  /\ semState = "removed"
  /\ \A r \in Resources : shmState[r] = "removed"
  /\ \A w \in Workers : wpc[w] = "done"

\* C8: a worker whose sink cannot be opened still releases resource i,
\* resource (i+1) mod N and its gate slot before it terminates, and (under
\* weak fairness) every launched worker still reaches Done.
ReleaseOnSinkFault ==
  /\ [](\A w \in Workers : SinkFault(w) /\ Terminated(w) =>
          /\ wpc[w] = "done"
          /\ \A s \in Needs(w) : Count(semops[w], "release", s) = 1)
  /\ <>[](unavailable # {} =>
            \A w \in Workers : Launched(w) => wpc[w] = "done" /\ semadj[w][GATE] = 0)

\* C8 witness: worker 2 could open neither of its sinks and has terminated
\* and has been collected together with the other four
ReleaseOnSinkFaultWitness ==
  /\ dbgood[2] = <<FALSE, FALSE>>
  /\ SinkFault(1)
  /\ SinkFault(3)
  /\ \A w \in Workers : Terminated(w)
  /\ reaped = PROC_COUNT

\* C9 (as claimed): the exit code of main is 0 exactly when no worker
\* faulted (no sink failure, no "Resources are in use" exit) and no error was
\* reported by setup or teardown.
ExitStatusReflectsFaults ==
  cpc = "exited" =>
    (exitCode = {0} <=>
       /\ \A w \in Workers : ~SinkFault(w) /\ wpc[w] # "fault"
       /\ report = {})

\* C10 (as claimed): after a failed fork main has, when it exits, collected
\* every launched worker and destroyed the semaphore set and all segments,
\* and exits non-zero.
LaunchFailureCleanup ==
  (cpc = "exited" /\ "Fork Failed" \in report) =>
    /\ exitCode # {0}
    /\ \A w \in Workers : Launched(w) => Terminated(w)
    /\ Cardinality({w \in Workers : Launched(w)}) = reaped
    /\ semState = "removed"
    /\ \A r \in Resources : shmState[r] = "removed"

\* C11 (as claimed): when the creation of a segment has failed, no worker is
\* launched and main, when it has exited, has exited non-zero and has left
\* neither the semaphore set nor an earlier segment allocated.
AllocationFailureCleanup ==
  "Failed getting shared memory" \in report =>
    /\ \A w \in Workers : ~Launched(w)
    /\ exitCode # {0}
    /\ semState # "live"
    /\ \A r \in Resources : shmState[r] # "live"

\* all five workers have reached Done
AllDone == \A w \in Workers : wpc[w] = "done"

\* the two workers that use resource r: worker r and its ring predecessor
UsersOf(r) == {r, (r + PROC_COUNT - 1) % PROC_COUNT}

\* C12: once all five workers have reached Done every busy flag is 0 again,
\* as main had initialised it.
FinalBusyFlags ==
  AllDone => \A r \in Resources : shm[r] = 0

\* C12 witness: all five workers are Done, before main starts the teardown,
\* and every worker has been through the code that sets and clears the flags
FinalBusyFlagsWitness ==
  /\ AllDone
  /\ cpc = "wait"
  /\ unavailable = {}
  /\ \A f \in FileNames : Len(files[f]) > 0

\* C13 (as claimed): with all sinks available and empty at the start, once
\* all five workers are Done each sink holds exactly 2 records, one from each
\* of the two workers that share it.
SinkRecordCountTwo ==
  (AllDone /\ unavailable = {}) =>
    \A r \in Resources :
      /\ Len(files[db1filename(r)]) = 2
      /\ {files[db1filename(r)][k][1] : k \in 1 .. Len(files[db1filename(r)])}
           = UsersOf(r)

\* C13 (amended): once all five workers are Done, each sink that could be
\* opened holds exactly 4 records: one "Being used by" and one "Free from"
\* record from each of the two ring-adjacent workers that share it; a sink
\* that could not be opened holds none.
SinkRecordCount ==
  AllDone =>
    \A r \in Resources :
      IF db1filename(r) \in unavailable
        THEN files[db1filename(r)] = <<>>
        ELSE /\ Len(files[db1filename(r)]) = 4
             /\ \A w \in UsersOf(r) : \A text \in {"Being used by", "Free from"} :
                  Cardinality({k \in 1 .. 4 :
                                 files[db1filename(r)][k] = <<w, text>>}) = 1

\* C13 witness: all five workers are Done, all sinks were available and each
\* holds four records
SinkRecordCountWitness ==
  /\ AllDone
  /\ unavailable = {}
  /\ \A f \in FileNames : Len(files[f]) = 4

\* the order of the semop calls of open_and_write for worker w
Protocol(w) ==
  << <<"acquire", GATE>>,
     <<"acquire", w>>,
     <<"acquire", (w + 1) % PROC_COUNT>>,
     <<"release", w>>,
     <<"release", (w + 1) % PROC_COUNT>>,
     <<"release", GATE>> >>

\* worker w is in the workload (the records and sleeps)
InWorkload(w) == wpc[w] \in {"use1", "use2", "free1", "free2"}

\* C14: worker step order. The semop calls of every worker are, at any time,
\* a prefix of: gate enter, acquire i, acquire (i+1) mod N, release i,
\* release (i+1) mod N, gate leave, each at most once; the workload runs
\* after the third acquire and before the first release; a worker that holds
\* a resource lock holds a gate slot, and one that holds resource (i+1) mod N
\* before any release holds resource i.
StepOrder ==
  \A w \in Workers :
    /\ Len(semops[w]) <= 6
    /\ semops[w] = SubSeq(Protocol(w), 1, Len(semops[w]))
    /\ InWorkload(w) => Len(semops[w]) = 3
    /\ (\E f \in FileNames : \E k \in 1 .. Len(files[f]) : files[f][k][1] = w)
         => Len(semops[w]) >= 3
    /\ (\E r \in Resources : semadj[w][r] >= 1) => semadj[w][GATE] = 1
    /\ (semadj[w][(w + 1) % PROC_COUNT] >= 1 /\ Len(semops[w]) = 3)
         => semadj[w][w] = 1

\* C14 witness: a worker has run through all six calls and is Done while
\* another is in its workload
StepOrderWitness ==
  \E w, v \in Workers :
    /\ wpc[w] = "done"
    /\ semops[w] = Protocol(w)
    /\ InWorkload(v)

\* C15: the busy flag is guarded by its lock. A flag that is 1 belongs to a
\* resource whose lock is held; a worker that is about to read or write a
\* flag holds the lock of that resource and is its only holder; main writes
\* the flags only before it has launched a worker.
BusyFlagGuarded ==
  /\ \A r \in Resources :
       shm[r] = 1 => \E w \in UsersOf(r) : semadj[w][r] = 1
  /\ \A w \in Workers :
       /\ wpc[w] \in {"mark1", "clear1"} =>
            semadj[w][sem1(w)] = 1 /\ Holders(sem1(w)) = {w}
       /\ wpc[w] \in {"mark2", "clear2"} =>
            semadj[w][sem2(w)] = 1 /\ Holders(sem2(w)) = {w}
  /\ cpc = "init" => \A w \in Workers : ~Launched(w)

\* C15 witness: a worker is about to clear the flag of its second resource,
\* which is 1, while the neighbour that shares the resource waits for its lock
BusyFlagGuardedWitness ==
  \E w \in Workers :
    /\ wpc[w] = "clear2"
    /\ shm[sem2(w)] = 1
    /\ wpc[sem2(w)] = "acq1"

\* C16 (as claimed): a worker that has released the lock of resource i and
\* still holds the lock of resource (i+1) mod N has already set the busy flag
\* of resource (i+1) mod N back to 0.
FlagsClearedBeforeRelease ==
  \A w \in Workers :
    (Count(semops[w], "release", sem1(w)) >= 1 /\ semadj[w][sem2(w)] = 1)
      => shm[sem2(w)] = 0

\* main has run init_sem for lock r
LockInitialised(r) ==
  /\ semState = "live"
  /\ cpc # "semget"
  /\ cpc = "init" => r < ci

\* main has run init_sem for the gate
GateInitialised ==
  /\ semState = "live"
  /\ cpc \notin {"semget", "init", "initgate"}

\* C17: semaphore value conservation. Once initialised, the gate's value is
\* in 0 .. N-1 and equals N-1 minus the number of workers between gate enter
\* and gate leave, and each lock's value is 0 or 1 and equals 1 minus the
\* number of workers that hold it; no semaphore exceeds its initial value.
SemaphoreConservation ==
  /\ GateInitialised =>
       /\ sem[GATE] \in 0 .. (PROC_COUNT - 1)
       /\ sem[GATE] = (PROC_COUNT - 1) - Cardinality({w \in Workers : Admitted(w)})
       /\ sem[GATE] = (PROC_COUNT - 1)
                        - Cardinality({w \in Workers : semadj[w][GATE] = 1})
  /\ \A r \in Resources : LockInitialised(r) =>
       /\ sem[r] \in {0, 1}
       /\ sem[r] = 1 - Cardinality(Holders(r))
       /\ sem[r] = 1 - Cardinality({w \in Workers : semadj[w][r] = 1})

\* C17 witness: the gate is at 0 with four workers admitted, a lock is at 0
\* and another lock is at 1
SemaphoreConservationWitness ==
  /\ GateInitialised
  /\ sem[GATE] = 0
  /\ Cardinality({w \in Workers : Admitted(w)}) = PROC_COUNT - 1
  /\ \E r, q \in Resources : sem[r] = 0 /\ sem[q] = 1

\* C18: bounded holdings. Every worker i holds at most one gate slot and at
\* most two resource locks, each at most once, and only the locks of
\* resource i and resource (i+1) mod N.
BoundedHoldings ==
  \A w \in Workers :
    /\ semadj[w][GATE] \in {0, 1}
    /\ \A r \in Resources :
         /\ semadj[w][r] \in {0, 1}
         /\ semadj[w][r] = 1 => r \in {w, (w + 1) % PROC_COUNT}
    /\ Cardinality({r \in Resources : semadj[w][r] # 0}) <= 2
    /\ {r \in Resources : w \in Holders(r)} \subseteq {w, (w + 1) % PROC_COUNT}

\* C18 witness: the last worker of the ring holds a gate slot and the locks
\* of resource 4 and resource 0
BoundedHoldingsWitness ==
  /\ semadj[PROC_COUNT - 1][GATE] = 1
  /\ semadj[PROC_COUNT - 1][PROC_COUNT - 1] = 1
  /\ semadj[PROC_COUNT - 1][0] = 1

\* the workers that wait for or are about to ask for the lock of resource r
WaitersOf(r) ==
  {w \in Workers : \/ wpc[w] = "acq1" /\ sem1(w) = r
                   \/ wpc[w] = "acq2" /\ sem2(w) = r}

\* C19: blocking only on ring neighbours. A worker i that is blocked in the
\* acquire of resource i finds it held by worker (i-1) mod N; one blocked in
\* the acquire of resource (i+1) mod N finds it held by worker (i+1) mod N;
\* only the two ring neighbours of a resource hold it or wait for it.
BlockingOnNeighbours ==
  /\ \A w \in Workers :
       /\ (wpc[w] = "acq1" /\ ~ENABLED AcquireFirst(w))
            => semadj[(w + PROC_COUNT - 1) % PROC_COUNT][w] = 1
       /\ (wpc[w] = "acq2" /\ ~ENABLED AcquireSecond(w))
            => semadj[(w + 1) % PROC_COUNT][(w + 1) % PROC_COUNT] = 1
  /\ \A r \in Resources :
       /\ WaitersOf(r) \subseteq UsersOf(r)
       /\ {w \in Workers : semadj[w][r] # 0} \subseteq UsersOf(r)

\* C19 witness: one worker is blocked in the acquire of its first resource
\* and another in the acquire of its second
BlockingOnNeighboursWitness ==
  \E w, v \in Workers :
    /\ wpc[w] = "acq1" /\ ~ENABLED AcquireFirst(w)
    /\ wpc[v] = "acq2" /\ ~ENABLED AcquireSecond(v)

\* C20: sink writes happen under the matching lock. The table gives worker i
\* as first sink the file of resource i and as second sink the file of
\* resource (i+1) mod 5 (the first sink of worker (i+1) mod 5); a worker that
\* is about to append to a sink holds the lock of the sink's resource; in
\* every sink a "Being used by" record is followed by nothing or by the
\* "Free from" record of the same worker, and every "Free from" record
\* follows the "Being used by" record of the same worker.
SinkWritesUnderLock ==
  /\ \A i \in Workers : db2filename(i) = db1filename((i + 1) % 5)
  /\ \A i, j \in Workers : i # j => db1filename(i) # db1filename(j)
  /\ \A w \in Workers :
       /\ wpc[w] \in {"use1", "free1"} => semadj[w][w] = 1
       /\ wpc[w] \in {"use2", "free2"} => semadj[w][(w + 1) % 5] = 1
  /\ \A f \in FileNames : \A k \in 1 .. Len(files[f]) :
       /\ files[f][k][2] = "Being used by" =>
            \/ k = Len(files[f])
            \/ files[f][k + 1] = <<files[f][k][1], "Free from">>
       /\ files[f][k][2] = "Free from" =>
            /\ k > 1
            /\ files[f][k - 1] = <<files[f][k][1], "Being used by">>

\* C20 witness: a sink holds the two records of one worker followed by the
\* "Being used by" record of the other worker that shares it
SinkWritesUnderLockWitness ==
  \E f \in FileNames :
    /\ Len(files[f]) = 3
    /\ files[f][1][1] # files[f][3][1]
    /\ files[f][2][2] = "Free from"

====
